---------------------------- MODULE Spec2Model ----------------------------
(***************************************************************************)
(* bitcoin-json-rpc: the retry / effect-classification engine of the typed *)
(* JSON-RPC client (src/src/BitcoinJsonRpc.ts, src/src/utils.ts,           *)
(* src/src/BitcoinJsonRpcError.ts).                                        *)
(*                                                                         *)
(* One logical call is a typed operation (sendToAddress, getBalance, ...)  *)
(* that runs cmdWithRetryAndParse -> cmdWithRetry -> cmd.  The async code  *)
(* is cut at its awaits on the outside world: the transport request and    *)
(* the delay between attempts.  Everything between two such awaits is one  *)
(* atomic action.                                                          *)
(*                                                                         *)
(* Strings that the code matches with regular expressions (error           *)
(* messages) are sequences of tokens; a regular expression is a token      *)
(* phrase with optional ^ and $ anchors, matched as the regex matches.     *)
(* The tri-state verdict false / null / true and JavaScript's undefined    *)
(* are the strings "false", "null", "true", "undefined".  JavaScript       *)
(* objects are functions from keys to values, << >> being {}.              *)
(***************************************************************************)
EXTENDS Integers, Sequences, FiniteSets, TLC

VARIABLES
    pc,          \* "idle" | "await" (transport in flight) | "delay" | "resolved" | "rejected"
    callId,      \* number of logical calls started on the client so far
    method,      \* cmdWithRetry's method argument
    params,      \* cmdWithRetry's ...params
    schema,      \* cmdWithRetryAndParse's schema argument
    attemptN,    \* attempt()'s attemptN of the running attempt
    requests,    \* what the transport (jsonRpcCmd) was invoked with, in order
    log,         \* the completed attempts of this call, in order
    waits,       \* the delays awaited by this call, in order (their ms)
    unsafe,      \* cmdWithRetry's resolved value (cmdWithRetryAndParse's `unsafe`)
    result,      \* the value the typed operation resolved with
    error,       \* the error the typed operation rejected with
    outcomes,    \* number of terminal outcomes (resolve or reject) of this call
    executions,  \* number of times the server ran this call's command
    suspended,   \* the client's other logical call (its locals) while this one steps
    fnIn,        \* the arguments a function was applied to on its own
    fnOut        \* what that function returned

\* The locals of one logical call.
callVars == <<pc, method, params, schema, attemptN, requests, log, waits,
              unsafe, result, error, outcomes, executions>>

vars == <<pc, callId, method, params, schema, attemptN, requests, log, waits,
          unsafe, result, error, outcomes, executions, suspended, fnIn, fnOut>>

(***************************************************************************)
(* Bounds of the model.                                                    *)
(***************************************************************************)
\* Logical calls the caller makes on one client, one after the other.
MaxCalls == 2

(***************************************************************************)
(* Program constants.                                                      *)
(***************************************************************************)
MAX_ATTEMPTS == 5

DELAY_BETWEEN_ATTEMPTS == 5000

url == "https://localhost"

Undefined == "undefined"

PURE_METHODS ==
    { "getinfo", "getblockchaininfo", "getrawtransaction", "getblockhash",
      "getrawmempool", "validateaddress", "getbalance",
      "omni_getwalletaddressbalances", "omni_gettransaction",
      "omni_listpendingtransactions", "z_getoperationresult", "z_getbalance",
      "z_validateaddress", "z_listunspent", "listunspent", "dumpprivkey",
      "gettransaction" }

\* method.match(/^omni_/): the methods of the model whose name starts with omni_.
OmniMethods == { "omni_send", "omni_gettransaction" }

(***************************************************************************)
(* Regular expressions over token sequences.                               *)
(***************************************************************************)
Re(start, phrase, end) == [start |-> start, phrase |-> phrase, end |-> end]

\* message.match(re) !== null
RegexMatch(re, message) ==
    \E i \in 1..(Len(message) + 1) :
        LET j == i + Len(re.phrase) - 1 IN
        /\ j <= Len(message)
        /\ SubSeq(message, i, j) = re.phrase
        /\ re.start => i = 1
        /\ re.end => j = Len(message)


(***************************************************************************)
(* JavaScript objects.                                                     *)
(***************************************************************************)
EmptyObject == << >>

\* Object.assign(a, b): shallow, b's keys win.
ObjectAssign(a, b) ==
    [k \in (DOMAIN a) \cup (DOMAIN b) |-> IF k \in DOMAIN b THEN b[k] ELSE a[k]]

(***************************************************************************)
(* utils.ts: the effect classifier and the retry override.                 *)
(***************************************************************************)
\* Faulty variant: the list without /^ECONNREFUSED$/.
notExecutedErrorMessages_NoEconnrefused ==
    << Re(TRUE,  <<"Work queue depth exceeded">>, TRUE),
       Re(TRUE,  <<"Loading block index">>, FALSE),
       Re(TRUE,  <<"Rewinding blocks">>, FALSE),
       Re(TRUE,  <<"Error creating transaction">>, FALSE),
       Re(TRUE,  <<"Loading P2P addresses">>, FALSE),
       Re(TRUE,  <<"Insufficient funds">>, TRUE),
       Re(TRUE,  <<"Error with selected inputs">>, FALSE),
       Re(TRUE,  <<"Sender has insufficient balance">>, FALSE),
       Re(TRUE,  <<"Insufficient funds">>, FALSE),
       Re(TRUE,  <<"Verifying blocks">>, FALSE),
       Re(TRUE,  <<"Loading wallet">>, FALSE),
       Re(FALSE, <<"fees may not be sufficient">>, FALSE),
       Re(FALSE, <<"Error choosing inputs", " for the send transaction">>, FALSE),
       Re(FALSE, <<"Rewinding blocks">>, FALSE),
       Re(FALSE, <<"Invalid amount">>, FALSE),
       Re(TRUE,  <<"Activating best chain">>, FALSE),
       Re(TRUE,  <<"Parsing Omni Layer transactions">>, FALSE),
       Re(TRUE,  <<"Upgrading">>, FALSE),
       Re(TRUE,  <<"Error committing transaction">>, FALSE) >>

notExecutedErrorMessages ==
    << Re(TRUE,  <<"Work queue depth exceeded">>, TRUE),
       Re(TRUE,  <<"Loading block index">>, FALSE),
       Re(TRUE,  <<"Rewinding blocks">>, FALSE),
       Re(TRUE,  <<"Error creating transaction">>, FALSE),
       Re(TRUE,  <<"Loading P2P addresses">>, FALSE),
       Re(TRUE,  <<"Insufficient funds">>, TRUE),
       Re(TRUE,  <<"Error with selected inputs">>, FALSE),
       Re(TRUE,  <<"Sender has insufficient balance">>, FALSE),
       Re(TRUE,  <<"Insufficient funds">>, FALSE),
       Re(TRUE,  <<"ECONNREFUSED">>, TRUE),
       Re(TRUE,  <<"Verifying blocks">>, FALSE),
       Re(TRUE,  <<"Loading wallet">>, FALSE),
       Re(FALSE, <<"fees may not be sufficient">>, FALSE),
       Re(FALSE, <<"Error choosing inputs", " for the send transaction">>, FALSE),
       Re(FALSE, <<"Rewinding blocks">>, FALSE),
       Re(FALSE, <<"Invalid amount">>, FALSE),
       Re(TRUE,  <<"Activating best chain">>, FALSE),
       Re(TRUE,  <<"Parsing Omni Layer transactions">>, FALSE),
       Re(TRUE,  <<"Upgrading">>, FALSE),
       Re(TRUE,  <<"Error committing transaction">>, FALSE) >>

\* Faulty variant: a message on no list is taken as not executed.
getWasExecutedFromError_DefaultFalse(m, err) == "false"

\* Faulty variant: a message on no list is taken as executed.
getWasExecutedFromError_DefaultTrue(m, err) ==
    IF \E i \in DOMAIN notExecutedErrorMessages :
           RegexMatch(notExecutedErrorMessages[i], err.message)
    THEN "false"
    ELSE "true"

getWasExecutedFromError(m, err) ==
    IF \E i \in DOMAIN notExecutedErrorMessages :
           RegexMatch(notExecutedErrorMessages[i], err.message)
    THEN "false"
    ELSE "null"

\* Faulty variant: the rule for /^Insufficient funds$/ is missing.
getShouldRetry_NoInsufficientFunds(m, err) ==
    IF m = "gettransaction"
       /\ RegexMatch(Re(FALSE, <<"Invalid or non-wallet transaction id">>, FALSE), err.message)
    THEN FALSE
    ELSE IF m \in OmniMethods
            /\ RegexMatch(Re(FALSE, <<"Error creating transaction">>, FALSE), err.message)
    THEN FALSE
    ELSE IF m \in OmniMethods
            /\ RegexMatch(Re(FALSE, <<"Error choosing inputs">>, FALSE), err.message)
    THEN FALSE
    ELSE IF m = "getrawtransaction"
            /\ RegexMatch(Re(FALSE, <<"No such mempool">>, FALSE), err.message)
    THEN FALSE
    ELSE TRUE

\* Faulty variant: /^Insufficient funds/ without the $ anchor.
getShouldRetry_InsufficientFundsPrefix(m, err) ==
    IF RegexMatch(Re(TRUE, <<"Insufficient funds">>, FALSE), err.message)
    THEN FALSE
    ELSE getShouldRetry_NoInsufficientFunds(m, err)

getShouldRetry(m, err) ==
    IF RegexMatch(Re(TRUE, <<"Insufficient funds">>, TRUE), err.message)
    THEN FALSE
    ELSE IF m = "gettransaction"
            /\ RegexMatch(Re(FALSE, <<"Invalid or non-wallet transaction id">>, FALSE), err.message)
    THEN FALSE
    ELSE IF m \in OmniMethods
            /\ RegexMatch(Re(FALSE, <<"Error creating transaction">>, FALSE), err.message)
    THEN FALSE
    ELSE IF m \in OmniMethods
            /\ RegexMatch(Re(FALSE, <<"Error choosing inputs">>, FALSE), err.message)
    THEN FALSE
    ELSE IF m = "getrawtransaction"
            /\ RegexMatch(Re(FALSE, <<"No such mempool">>, FALSE), err.message)
    THEN FALSE
    ELSE TRUE

(***************************************************************************)
(* BitcoinJsonRpcError.ts and the error data of cmdWithRetry.              *)
(***************************************************************************)
NoError ==
    [class |-> "none", message |-> << >>, executed |-> Undefined, data |-> EmptyObject]

\* Faulty variant: the constructor does not set this.executed.
BitcoinJsonRpcError_NoExecuted(inner, executed, data) ==
    [class    |-> "BitcoinJsonRpcError",
     message  |-> inner.message,
     executed |-> Undefined,
     data     |-> [k \in (DOMAIN inner.data) \cup {"bitcoinJsonRpc"} |->
                      IF k = "bitcoinJsonRpc" THEN data.bitcoinJsonRpc ELSE inner.data[k]]]

BitcoinJsonRpcError(inner, executed, data) ==
    [class    |-> "BitcoinJsonRpcError",
     message  |-> inner.message,
     executed |-> executed,
     data     |-> ObjectAssign(
                      ObjectAssign(
                          ObjectAssign(EmptyObject, inner.data),
                          [bitcoinJsonRpc |-> [executed |-> executed]]),
                      data)]

\* Faulty variant: attempts counted from zero.
getErrrorData_ZeroBased(m, p, methodIsPure, n) ==
    [bitcoinJsonRpc |->
        [method       |-> m,
         params       |-> p,
         methodIsPure |-> methodIsPure,
         maxAttempts  |-> MAX_ATTEMPTS,
         attempts     |-> n - 1]]

getErrrorData(m, p, methodIsPure, n) ==
    [bitcoinJsonRpc |->
        [method       |-> m,
         params       |-> p,
         methodIsPure |-> methodIsPure,
         maxAttempts  |-> MAX_ATTEMPTS,
         attempts     |-> n]]

(***************************************************************************)
(* cmdWithRetry's catch block.                                             *)
(***************************************************************************)
\* Faulty variant: effects are assumed only on a verdict of true.
hadEffects_OnlyWhenExecuted(methodIsPure, executed) == ~methodIsPure /\ executed = "true"

\* Faulty variant: the purity of the method is ignored.
hadEffects_IgnoresPurity(methodIsPure, executed) == executed # "false"

\* Faulty variant: no failure is taken to have had effects.
hadEffects_Never(methodIsPure, executed) == FALSE

hadEffects(methodIsPure, executed) == ~methodIsPure /\ executed # "false"

\* Faulty variant: hadEffects is ignored.
shouldRetry_IgnoresEffects(effects, m, err) == getShouldRetry(m, err)

shouldRetry(effects, m, err) == ~effects /\ getShouldRetry(m, err)

\* Faulty variant: the check attemptN === maxAttempts is missing.
CatchStep_NoBound(n, retry) ==
    IF retry THEN [throws |-> FALSE, retries |-> TRUE]
    ELSE [throws |-> TRUE, retries |-> FALSE]

\* Faulty variant: the retry is started but not returned, and the catch block goes on
\* to throw.
CatchStep_ThrowsAndRetries(n, retry) ==
    IF n = MAX_ATTEMPTS THEN [throws |-> TRUE, retries |-> FALSE]
    ELSE IF retry THEN [throws |-> TRUE, retries |-> TRUE]
    ELSE [throws |-> TRUE, retries |-> FALSE]

\* What the catch block does after the verdict: throw the error to the
\* caller, or wait and run attempt(attemptN + 1) in the caller's place.
\* Faulty variant: below the bound every failure is retried.
CatchStep_AlwaysRetries(n, retry) ==
    IF n = MAX_ATTEMPTS THEN [throws |-> TRUE, retries |-> FALSE]
    ELSE [throws |-> FALSE, retries |-> TRUE]

\* Faulty variant: the last attempt is given up, attemptN + 1 === maxAttempts.
CatchStep_StopsOneShort(n, retry) ==
    IF n + 1 >= MAX_ATTEMPTS THEN [throws |-> TRUE, retries |-> FALSE]
    ELSE IF retry THEN [throws |-> FALSE, retries |-> TRUE]
    ELSE [throws |-> TRUE, retries |-> FALSE]

\* Faulty variant: at the bound the failure is neither thrown nor retried.
CatchStep_DropsLast(n, retry) ==
    IF n = MAX_ATTEMPTS THEN [throws |-> FALSE, retries |-> FALSE]
    ELSE IF retry THEN [throws |-> FALSE, retries |-> TRUE]
    ELSE [throws |-> TRUE, retries |-> FALSE]

CatchStep(n, retry) ==
    IF n = MAX_ATTEMPTS THEN [throws |-> TRUE, retries |-> FALSE]
    ELSE IF retry THEN [throws |-> FALSE, retries |-> TRUE]
    ELSE [throws |-> TRUE, retries |-> FALSE]

(***************************************************************************)
(* Payloads and schemas.  A JSON value is its type, its text (scalars and  *)
(* arrays) and its keys (objects).  A zod object schema requires some keys *)
(* and strips the keys it does not know.                                   *)
(***************************************************************************)
Value(type, v, keys) == [type |-> type, v |-> v, keys |-> keys]

NoValue == Value(Undefined, "", {})

sendToAddressResultSchema == [type |-> "string", required |-> {}, known |-> {}]

omniSendSchema == [type |-> "string", required |-> {}, known |-> {}]

getRawMempoolResultSchema == [type |-> "array", required |-> {}, known |-> {}]

getBalanceResultSchema == [type |-> "number", required |-> {}, known |-> {}]

getTransactionResultSchema ==
    [type |-> "object", required |-> {}, known |-> {"fee", "blockhash"}]

omniGetTransactionResultSchema ==
    [type     |-> "object",
     required |-> {"txid", "type", "type_int", "version"},
     known    |-> {"txid", "amount", "propertyid", "valid", "invalidreason",
                   "type", "type_int", "version", "referenceaddress"}]

\* schema.parse(unsafe) does not throw
SchemaAccepts(s, value) == value.type = s.type /\ s.required \subseteq value.keys

\* schema.parse(unsafe), when it does not throw
SchemaParse(s, value) == [value EXCEPT !.keys = value.keys \cap s.known]

\* what schema.parse(unsafe) throws
ZodError(s, value) ==
    [class    |-> "ZodError",
     message  |-> <<"Expected ", s.type, ", received ", value.type>>,
     executed |-> Undefined,
     data     |-> EmptyObject]

\* Faulty variant: the validator's error is rethrown as it is.
ParseFailure_Unmarked(err) == err

\* cmdWithRetryAndParse's catch: Object.assign(error, { executed: true })
ParseFailure(err) == [err EXCEPT !.executed = "true"]

(***************************************************************************)
(* The outside world: what the transport can answer.                       *)
(***************************************************************************)
\* Payloads a node may return as `result`.
Payloads ==
    { Value("string", "hash", {}),
      Value("number", "1", {}),
      Value("array", "one,two", {}),
      Value("object", "", {"balance"}),
      Value("object", "", {"txid", "type", "type_int", "version", "fee", "hex"}) }

\* Failures with no response from the node: the error has no data.
TransportMessages == { << >>, <<"ECONNREFUSED">> }

\* Failures the node reported in its response.
NodeMessages ==
    { <<"Insufficient funds">>,
      <<"Insufficient funds", " for fee">>,
      <<"Error creating transaction">>,
      <<"Invalid or non-wallet transaction id">> }

Request(m, p) == [url |-> url, method |-> m, params |-> p]

(***************************************************************************)
(* utils.ts: the error made from a response body.                          *)
(* A string is a sequence of tokens and its length is the number of its    *)
(* characters.  A body is [type, text, error]: type is the typeof of the   *)
(* body, text its tokens if it is a string, error its error member.        *)
(***************************************************************************)
MAX_ERROR_MESSAGE_LENGTH == 150

\* What substr leaves of a token it cuts inside: a proper prefix of the
\* token, which is no phrase of any regular expression of utils.ts.
CutToken == "<cut>"

\* value.substr(0, room)
RECURSIVE Substr(_, _)
Substr(value, room) ==
    IF value = << >> \/ room = 0
    THEN << >>
    ELSE IF Len(Head(value)) <= room
    THEN << Head(value) >> \o Substr(Tail(value), room - Len(Head(value)))
    ELSE << CutToken >>

\* Faulty variant: the message is not cut.
maybeShortenErrorMessage_Whole(value) == value

maybeShortenErrorMessage(value) == Substr(value, MAX_ERROR_MESSAGE_LENGTH)

JsonError(type, message, code) == [type |-> type, message |-> message, code |-> code]

Body(type, text, err, res) ==
    [type |-> type, text |-> text, error |-> err, result |-> res]

\* The body { error: { message } } of a failure the node reports.
ErrorBody(message) ==
    Body("object", << >>, JsonError("object", message, "-1"), NoValue)

\* JSON.stringify of a result: a string, or null.
ValueJson(value) ==
    IF value.type = "string" THEN "\"" \o value.v \o "\"" ELSE "null"

\* Faulty variant: members that are null are left out.
JSONStringify_NoNull(data) ==
    IF data.error.type = "object"
    THEN << "{", "\"error\":{\"code\":" \o data.error.code \o "}", "}" >>
    ELSE << "{", "}" >>

\* JSON.stringify of an object body: its result and error members, those
\* it has, in the order the node writes them.  An error member that is
\* stringified is null or has no message.
JSONStringify(data) ==
    LET r == IF data.result.type = Undefined
             THEN << >>
             ELSE << "\"result\":" \o ValueJson(data.result) >>
        e == IF data.error.type = Undefined
             THEN << >>
             ELSE IF data.error.type = "null"
             THEN << "\"error\":null" >>
             ELSE << "\"error\":{\"code\":" \o data.error.code \o "}" >>
        comma == IF r # << >> /\ e # << >> THEN << "," >> ELSE << >>
    IN  << "{" >> \o r \o comma \o e \o << "}" >>

\* The error throwIfErrorInResponseData throws for the body, as << error >>,
\* or << >> if it returns.
throwIfErrorInResponseData(data) ==
    IF data.type = Undefined
    THEN << [message |-> << "data is undefined" >>, data |-> EmptyObject] >>
    ELSE IF data.type = "string"
    THEN << [message |-> maybeShortenErrorMessage(data.text),
             data    |-> [jsonRpcResponse |-> data]] >>
    ELSE IF data.error.type \in {Undefined, "null"}
    THEN << >>
    ELSE IF data.error.message # << >>
    THEN << [message |-> maybeShortenErrorMessage(data.error.message),
             data    |-> [jsonRpcResponse |-> data]] >>
    ELSE << [message |-> maybeShortenErrorMessage(JSONStringify(data)),
             data    |-> [jsonRpcResponse |-> data]] >>

\* lodash merge(error, props): props.data's keys are added to error.data.
throwIfErrorInResponseDataWithExtraProps(data, props) ==
    LET thrown == throwIfErrorInResponseData(data)
    IN  [i \in DOMAIN thrown |->
            [thrown[i] EXCEPT !.data = ObjectAssign(@, props.data)]]

\* The props jsonRpcCmd adds to the errors of a request.
RequestProps(m, p) == [data |-> [jsonRpcRequest |-> Request(m, p)]]

(***************************************************************************)
(* json-rpc.ts: jsonRpcCmd, from the outcome of axios.post on.             *)
(* The outcome is a response [data, contentTypeIsJson] or an error that    *)
(* may have a response attached.                                           *)
(***************************************************************************)
AxiosResponse(data, contentTypeIsJson) ==
    [kind |-> "response", message |-> << >>, hasResponse |-> TRUE,
     data |-> data, contentTypeIsJson |-> contentTypeIsJson]

AxiosError(message, hasResponse, data) ==
    [kind |-> "error", message |-> message, hasResponse |-> hasResponse,
     data |-> data, contentTypeIsJson |-> FALSE]

UndefinedBody == Body(Undefined, << >>, JsonError(Undefined, << >>, ""), NoValue)

StringBody(text) == Body("string", text, JsonError(Undefined, << >>, ""), NoValue)

\* The JSON texts of the model and the bodies they stand for.
JsonTexts ==
    ( << "{\"result\":\"hash\"}" >> :>
          Body("object", << >>, JsonError(Undefined, << >>, ""),
               Value("string", "hash", {})) )
    @@
    ( << "{\"error\":{\"message\":\"", "Insufficient funds", "\"}}" >> :>
          ErrorBody(<< "Insufficient funds" >>) )
    @@
    ( << "\"", "Work queue depth exceeded", "\"" >> :>
          StringBody(<< "Work queue depth exceeded" >>) )

\* JSON.parse(text): << value >>, or << >> if it throws a SyntaxError.
JSONParse(text) ==
    IF text \in DOMAIN JsonTexts THEN << JsonTexts[text] >> ELSE << >>

\* The message of JSON.parse's SyntaxError and of the TypeError of
\* destructuring undefined: the engine's wording.
SyntaxErrorMessages ==
    { << "Unexpected token in JSON at position 0" >>,
      << "Unexpected end of JSON input" >> }

TypeErrorMessages ==
    { << "Cannot destructure property 'result' of 'dataStrict' as it is undefined." >>,
      << "Cannot destructure property `result` of 'undefined' or 'null'." >> }

\* JavaScript's truthiness of a body.
Truthy(data) ==
    /\ data.type # Undefined
    /\ ~(data.type = "string" /\ data.text = << >>)

Returned(value, body) ==
    [returned |-> TRUE, value |-> value,
     error |-> [message |-> << >>, data |-> EmptyObject], body |-> body]

Thrown(err, body) ==
    [returned |-> FALSE, value |-> NoValue, error |-> err, body |-> body]

\* What jsonRpcCmd(url, m, p) does once axios.post has settled with outcome
\* o: the set of its possible results, each the value returned or the error
\* thrown, with the body it looked at (dataStrict, or the body attached to
\* the error).
jsonRpcCmd(m, p, o) ==
    IF o.kind = "error"
    THEN LET raw == [message |-> o.message, data |-> EmptyObject]
             thrown == throwIfErrorInResponseDataWithExtraProps(o.data, RequestProps(m, p))
         IN  IF o.hasResponse /\ Truthy(o.data) /\ thrown # << >>
             THEN { Thrown(thrown[1], o.data) }
             ELSE { Thrown(raw, o.data) }
    ELSE LET parsed == IF o.contentTypeIsJson /\ o.data.type = "string"
                       THEN JSONParse(o.data.text)
                       ELSE << o.data >>
         IN  IF parsed = << >>
             THEN { Thrown([message |-> sm, data |-> EmptyObject], o.data) :
                        sm \in SyntaxErrorMessages }
             ELSE LET dataStrict == parsed[1]
                      thrown == throwIfErrorInResponseDataWithExtraProps(
                                    dataStrict, RequestProps(m, p))
                  IN  IF dataStrict.type # Undefined /\ thrown # << >>
                      THEN { Thrown(thrown[1], dataStrict) }
                      ELSE IF dataStrict.type = Undefined
                      THEN { Thrown([message |-> tm, data |-> EmptyObject], dataStrict) :
                                 tm \in TypeErrorMessages }
                      ELSE IF dataStrict.result.type = Undefined
                      THEN { Thrown(
                                 [message |-> maybeShortenErrorMessage(
                                                  << "Result missing from " >>
                                                  \o JSONStringify(dataStrict)),
                                  data    |-> [jsonRpcRequest |-> Request(m, p)]],
                                 dataStrict) }
                      ELSE { Returned(dataStrict.result, dataStrict) }

\* The errors cmd (jsonRpcCmd) may reject with.
CmdErrors(m, p) ==
    { [message |-> msg, data |-> EmptyObject] : msg \in TransportMessages }
    \cup
    { throwIfErrorInResponseDataWithExtraProps(ErrorBody(msg), RequestProps(m, p))[1] :
          msg \in NodeMessages }

\* Whether the server may have run the command of a failed attempt: a
\* failure on the not-executed list means it did not; any other failure
\* leaves both possible.
ServerRan(err) ==
    IF \E i \in DOMAIN notExecutedErrorMessages :
           RegexMatch(notExecutedErrorMessages[i], err.message)
    THEN {FALSE}
    ELSE BOOLEAN

\* Faulty variant: a retry sends the params without their first one.
attemptCmd_ParamsConsumed(m, p, n) ==
    << Request(m, IF n = 1 \/ p = << >> THEN p ELSE Tail(p)) >>

\* Faulty variant: every attempt posts its request twice.
attemptCmd_Twice(m, p, n) == << Request(m, p), Request(m, p) >>

\* Faulty variant: a retry posts its request twice.
attemptCmd_NotAwaited(m, p, n) ==
    IF n = 1 THEN << Request(m, p) >> ELSE << Request(m, p), Request(m, p) >>

\* The transport requests attempt n of a call makes: one, this.cmd(method,
\* ...params), with the method and params of the call.
attemptCmd(m, p, n) == << Request(m, p) >>

\* Faulty variant: the delay grows with the attempt.
RetryDelay_Growing(n) == DELAY_BETWEEN_ATTEMPTS * n

\* The delay awaited after failed attempt n, before attempt n + 1.
RetryDelay(n) == DELAY_BETWEEN_ATTEMPTS

\* A logical call that has not started: the locals of callVars, by name.
IdleCall ==
    [pc |-> "idle", method |-> "", params |-> << >>,
     schema |-> getBalanceResultSchema, attemptN |-> 0, requests |-> << >>,
     log |-> << >>, waits |-> << >>, unsafe |-> NoValue, result |-> NoValue,
     error |-> NoError, outcomes |-> 0, executions |-> 0]

\* No function applied on its own yet.
NoInput == [fn |-> "none"]

NoOutput == [fn |-> "none"]

(***************************************************************************)
(* The state after construction: a client with no call made.               *)
(***************************************************************************)
Init ==
    /\ pc = "idle"
    /\ callId = 0
    /\ method = ""
    /\ params = << >>
    /\ schema = getBalanceResultSchema
    /\ attemptN = 0
    /\ requests = << >>
    /\ log = << >>
    /\ waits = << >>
    /\ unsafe = NoValue
    /\ result = NoValue
    /\ error = NoError
    /\ outcomes = 0
    /\ executions = 0
    /\ suspended = IdleCall
    /\ fnIn = NoInput
    /\ fnOut = NoOutput

(***************************************************************************)
(* cmdWithRetryAndParse(schema, method, ...params), up to its first await: *)
(* cmdWithRetry -> attempt(1) -> cmd -> jsonRpcCmd posts the request.      *)
(* The caller makes its calls one after the other.                         *)
(***************************************************************************)
cmdWithRetryAndParse(s, m, p) ==
    /\ pc \in {"idle", "resolved", "rejected"}
    /\ callId < MaxCalls
    /\ callId' = callId + 1
    /\ method' = m
    /\ params' = p
    /\ schema' = s
    /\ attemptN' = 1
    /\ requests' = attemptCmd(m, p, 1)
    /\ log' = << >>
    /\ waits' = << >>
    /\ unsafe' = NoValue
    /\ result' = NoValue
    /\ error' = NoError
    /\ outcomes' = 0
    /\ executions' = 0
    /\ pc' = "await"
    /\ UNCHANGED <<suspended, fnIn, fnOut>>

\* JavaScript's a ?? b
Coalesce(a, b) == IF a = Undefined THEN b ELSE a

\* Faulty variant: the arguments left out are sent as they are, without defaults.
sendToAddressParams_NoDefaults(address, amount, comment, commentTo, subtractFeeFromAmount, replaceable) ==
    IF replaceable # Undefined
    THEN <<address, amount, comment, commentTo, subtractFeeFromAmount, replaceable>>
    ELSE IF subtractFeeFromAmount # Undefined
    THEN <<address, amount, comment, commentTo, subtractFeeFromAmount>>
    ELSE IF commentTo # Undefined
    THEN <<address, amount, comment, commentTo>>
    ELSE <<address, amount>>

sendToAddressParams(address, amount, comment, commentTo, subtractFeeFromAmount, replaceable) ==
    IF replaceable # Undefined
    THEN <<address, amount, Coalesce(comment, ""), Coalesce(commentTo, ""),
           Coalesce(subtractFeeFromAmount, "false"), replaceable>>
    ELSE IF subtractFeeFromAmount # Undefined
    THEN <<address, amount, Coalesce(comment, ""), Coalesce(commentTo, ""),
           subtractFeeFromAmount>>
    ELSE IF commentTo # Undefined
    THEN <<address, amount, Coalesce(comment, ""), commentTo>>
    ELSE IF commentTo \notin {Undefined, ""}
    THEN <<address, amount, comment>>
    ELSE <<address, amount>>

sendToAddress ==
    \E comment \in {Undefined, "gift"}, commentTo \in {Undefined, "bob"},
       subtractFeeFromAmount \in {Undefined, "true"}, replaceable \in {Undefined, "true"} :
        cmdWithRetryAndParse(sendToAddressResultSchema, "sendtoaddress",
            sendToAddressParams("1Bitcoin", "1.2", comment, commentTo,
                                subtractFeeFromAmount, replaceable))

omniSend ==
    cmdWithRetryAndParse(omniSendSchema, "omni_send", <<"1From", "1To", "31", "1.5">>)

getTransaction ==
    cmdWithRetryAndParse(getTransactionResultSchema, "gettransaction", <<"txhash">>)

getRawMempool ==
    cmdWithRetryAndParse(getRawMempoolResultSchema, "getrawmempool", << >>)

getBalance ==
    \E minConf \in {"0", "1"} :
        cmdWithRetryAndParse(getBalanceResultSchema, "getbalance", <<"*", minConf>>)

omniGetTransaction ==
    cmdWithRetryAndParse(omniGetTransactionResultSchema, "omni_gettransaction", <<"txid">>)

(***************************************************************************)
(* The transport request of the running attempt resolves with a payload:   *)
(* attempt returns it, cmdWithRetry resolves, cmdWithRetryAndParse parses. *)
(***************************************************************************)
cmdResolves ==
    \E payload \in Payloads :
        /\ pc = "await"
        /\ log' = Append(log, [ok |-> TRUE, message |-> << >>, executed |-> Undefined,
                               payload |-> payload])
        /\ executions' = executions + 1
        /\ unsafe' = payload
        /\ outcomes' = outcomes + 1
        /\ IF SchemaAccepts(schema, payload)
           THEN /\ result' = SchemaParse(schema, payload)
                /\ pc' = "resolved"
                /\ UNCHANGED error
           ELSE /\ error' = ParseFailure(ZodError(schema, payload))
                /\ pc' = "rejected"
                /\ UNCHANGED result
        /\ UNCHANGED <<callId, method, params, schema, attemptN, requests, waits>>
        /\ UNCHANGED <<suspended, fnIn, fnOut>>

(***************************************************************************)
(* The transport request of the running attempt rejects: attempt's catch   *)
(* block classifies the failure and throws or starts the delay.            *)
(***************************************************************************)
cmdRejects ==
    \E inner \in CmdErrors(method, params) : \E ran \in ServerRan(inner) :
        LET methodIsPure == method \in PURE_METHODS
            executed == getWasExecutedFromError(method, inner)
            effects == hadEffects(methodIsPure, executed)
            retry == shouldRetry(effects, method, inner)
            step == CatchStep(attemptN, retry)
        IN  /\ pc = "await"
            /\ log' = Append(log, [ok |-> FALSE, message |-> inner.message,
                                   executed |-> executed, payload |-> NoValue])
            /\ executions' = executions + (IF ran THEN 1 ELSE 0)
            /\ IF step.throws
               THEN /\ error' = BitcoinJsonRpcError(inner, executed,
                                    getErrrorData(method, params, methodIsPure, attemptN))
                    /\ outcomes' = outcomes + 1
               ELSE UNCHANGED <<error, outcomes>>
            /\ IF step.retries
               THEN /\ waits' = Append(waits, RetryDelay(attemptN))
                    /\ pc' = "delay"
               ELSE /\ UNCHANGED waits
                    /\ pc' = "rejected"
            /\ UNCHANGED <<callId, method, params, schema, attemptN, requests,
                           unsafe, result>>
            /\ UNCHANGED <<suspended, fnIn, fnOut>>

(***************************************************************************)
(* The delay elapses: attempt(attemptN + 1) posts the request again.       *)
(***************************************************************************)
delayElapses ==
    /\ pc = "delay"
    /\ attemptN' = attemptN + 1
    /\ requests' = requests \o attemptCmd(method, params, attemptN + 1)
    /\ pc' = "await"
    /\ UNCHANGED <<callId, method, params, schema, log, waits, unsafe, result,
                   error, outcomes, executions>>
    /\ UNCHANGED <<suspended, fnIn, fnOut>>

Next ==
    \/ sendToAddress
    \/ omniSend
    \/ getTransaction
    \/ getRawMempool
    \/ getBalance
    \/ omniGetTransaction
    \/ cmdResolves
    \/ cmdRejects
    \/ delayElapses

Spec == Init /\ [][Next]_vars

(***************************************************************************)
(* Vocabulary of the properties.                                           *)
(***************************************************************************)
Failed(n) == n \in DOMAIN log /\ ~log[n].ok

Succeeded(n) == n \in DOMAIN log /\ log[n].ok

\* The message is on the not-executed list.
OnNotExecutedList(message) ==
    \E i \in DOMAIN notExecutedErrorMessages :
        RegexMatch(notExecutedErrorMessages[i], message)

\* Attempt n failed and the call went on to retry it: it waits for the
\* delay of attempt n, or attempt n + 1 has been sent.
Retried(n) ==
    \/ pc = "delay" /\ Len(log) = n /\ Len(waits) = n
    \/ Len(requests) >= n + 1

\* Attempt n was the last one: the call rejected on it with err's attempts = n.
EndedAt(n) ==
    /\ pc = "rejected"
    /\ Len(log) = n
    /\ Len(requests) = n
    /\ Len(waits) = n - 1
    /\ error.class = "BitcoinJsonRpcError"
    /\ error.data.bitcoinJsonRpc.attempts = n

(***************************************************************************)
(* C1: attempt n+1 of a logical call is issued only if attempt n failed    *)
(* and the method is pure or the failure was classified NotExecuted; a     *)
(* non-pure method whose failure verdict is Unknown is never sent again.   *)
(***************************************************************************)
C1_RetryOnlyPureOrNotExecuted ==
    /\ \A n \in 1..Len(requests) :
          n > 1 => /\ Failed(n - 1)
                   /\ method \in PURE_METHODS \/ log[n - 1].executed = "false"
    /\ \A n \in DOMAIN log :
          (Failed(n) /\ method \notin PURE_METHODS /\ log[n].executed = "null")
              => Len(requests) = n /\ pc = "rejected"

\* a non-pure call that retried twice after NotExecuted failures and then
\* stopped on an Unknown one
C1_Witness ==
    /\ method \notin PURE_METHODS
    /\ Len(requests) = 3
    /\ Failed(3)
    /\ log[2].executed = "false"
    /\ log[3].executed = "null"

(***************************************************************************)
(* C2: one logical call invokes the transport at most maxAttempts = 5      *)
(* times; a failure on attempt 5 ends the call with an error whether or    *)
(* not the failure is retryable.                                           *)
(***************************************************************************)
C2_AtMostMaxAttempts ==
    /\ MAX_ATTEMPTS = 5
    /\ Len(requests) <= MAX_ATTEMPTS
    /\ Failed(MAX_ATTEMPTS) => EndedAt(MAX_ATTEMPTS)

\* the fifth attempt failed with a failure that would have been retried
C2_Witness ==
    /\ Failed(5)
    /\ pc = "rejected"
    /\ ~hadEffects(method \in PURE_METHODS, log[5].executed)
    /\ getShouldRetry(method, [message |-> log[5].message])

\* The outcome of the running call: none while it attempts or waits, then one.
C3_OneOutcome ==
    /\ outcomes <= 1
    /\ pc \in {"await", "delay"} => outcomes = 0 /\ result = NoValue /\ error = NoError
    /\ pc = "resolved" => outcomes = 1 /\ result # NoValue /\ error = NoError
    /\ pc = "rejected" => outcomes = 1 /\ result = NoValue /\ error # NoError

\* After its outcome a call sends nothing, waits for nothing and settles no more.
C3_NothingAfterOutcome ==
    [][(outcomes >= 1 /\ callId' = callId)
          => UNCHANGED <<requests, log, waits, unsafe, result, error, outcomes>>]_vars

(***************************************************************************)
(* C3: a logical call produces one outcome, never both and never more;     *)
(* once it has resolved or rejected, no further transport attempt, wait or *)
(* outcome happens for that call.                                          *)
(***************************************************************************)
C3_OneTerminalOutcome == []C3_OneOutcome /\ C3_NothingAfterOutcome

\* both outcomes are reached after retries: here the rejected one
C3_Witness == pc = "rejected" /\ outcomes = 1 /\ Len(requests) = 2 /\ Len(waits) = 1

(***************************************************************************)
(* C4: for a non-pure method, when attempts fail with NotExecuted messages *)
(* and a later retry succeeds, the server ran the command exactly once:    *)
(* the transport is invoked once per attempt, and each retry follows a     *)
(* failure classified NotExecuted (which the server did not run).          *)
(***************************************************************************)
C4_OneEffectAfterRetry ==
    /\ callId > 0 => Len(requests) = attemptN
    /\ (method \notin PURE_METHODS /\ Len(log) >= 2 /\ Succeeded(Len(log)))
          => /\ executions = 1
             /\ Len(requests) = Len(log)
             /\ \A n \in 1..(Len(log) - 1) : Failed(n) /\ log[n].executed = "false"

\* sendtoaddress succeeded on its third attempt
C4_Witness ==
    /\ method = "sendtoaddress"
    /\ Len(log) = 3
    /\ Succeeded(3)
    /\ pc = "resolved"

(***************************************************************************)
(* C5: for a method not in PURE_METHODS, a first-attempt failure whose     *)
(* message matches no not-executed pattern ends the call at once: zero     *)
(* retries, the error has executed = null and attempts = 1.                *)
(***************************************************************************)
C5_NonPureUnknownEndsAtOnce ==
    (method \notin PURE_METHODS /\ Failed(1) /\ ~OnNotExecutedList(log[1].message))
        => /\ EndedAt(1)
           /\ waits = << >>
           /\ error.executed = "null"
           /\ error.data.bitcoinJsonRpc.attempts = 1

\* sendtoaddress failed on its first attempt with a message of the node that
\* is on no list
C5_Witness ==
    /\ method = "sendtoaddress"
    /\ Failed(1)
    /\ log[1].message = <<"Invalid or non-wallet transaction id">>
    /\ pc = "rejected"

(***************************************************************************)
(* C6: a failure whose message is exactly "Insufficient funds" is never    *)
(* retried, for any method and on any attempt n: the call ends at attempt  *)
(* n with an error whose executed is false; for sendToAddress failing on   *)
(* the first attempt the error has methodIsPure = false and attempts = 1.  *)
(***************************************************************************)
C6_InsufficientFundsNeverRetried ==
    \A n \in DOMAIN log :
        (Failed(n) /\ log[n].message = <<"Insufficient funds">>)
            => /\ EndedAt(n)
               /\ error.executed = "false"
               /\ (method = "sendtoaddress" /\ n = 1)
                     => /\ error.data.bitcoinJsonRpc.methodIsPure = FALSE
                        /\ error.data.bitcoinJsonRpc.attempts = 1

\* sendtoaddress was retried once and then ran out of funds
C6_Witness ==
    /\ method = "sendtoaddress"
    /\ Len(log) = 2
    /\ Failed(2)
    /\ log[2].message = <<"Insufficient funds">>
    /\ pc = "rejected"

(***************************************************************************)
(* C7: for sendtoaddress, a failure with message "ECONNREFUSED" on attempt *)
(* n < 5 is followed by a retry; if the next attempt succeeds, cmdWithRetry*)
(* returns that attempt's payload and raises no error (and sendToAddress   *)
(* resolves with it when it has the expected shape).                       *)
(***************************************************************************)
C7_SendRetriedOnEconnrefused ==
    method = "sendtoaddress" =>
        \A n \in DOMAIN log :
            (n < MAX_ATTEMPTS /\ Failed(n) /\ log[n].message = <<"ECONNREFUSED">>)
                => /\ Retried(n)
                   /\ Succeeded(n + 1)
                         => /\ unsafe = log[n + 1].payload
                            /\ error.class # "BitcoinJsonRpcError"
                            /\ SchemaAccepts(schema, log[n + 1].payload)
                                  => /\ pc = "resolved"
                                     /\ result = log[n + 1].payload
                                     /\ error = NoError

\* the test's run: ECONNREFUSED, then 'hash'
C7_Witness ==
    /\ method = "sendtoaddress"
    /\ params = <<"1Bitcoin", "1.2">>
    /\ Len(log) = 2
    /\ Failed(1) /\ log[1].message = <<"ECONNREFUSED">>
    /\ Succeeded(2) /\ log[2].payload = Value("string", "hash", {})
    /\ pc = "resolved"

(***************************************************************************)
(* C8: for every method in PURE_METHODS, a failure whose message matches   *)
(* no retry-override rule on attempt n < 5 is followed by attempt n+1; if  *)
(* attempt k is the first to succeed, cmdWithRetry returns attempt k's     *)
(* payload after exactly k-1 failed attempts, each retry preceded by the   *)
(* fixed delay.                                                            *)
(***************************************************************************)
C8_PureRetriedUntilSuccess ==
    method \in PURE_METHODS =>
        /\ \A n \in DOMAIN log :
              (n < MAX_ATTEMPTS /\ Failed(n)
                 /\ getShouldRetry(method, [message |-> log[n].message]))
                  => Retried(n)
        /\ \A k \in DOMAIN log :
              Succeeded(k)
                  => /\ k = Len(log) /\ k <= MAX_ATTEMPTS
                     /\ unsafe = log[k].payload
                     /\ \A j \in 1..(k - 1) : Failed(j)
                     /\ Len(requests) = k
                     /\ waits = [j \in 1..(k - 1) |-> DELAY_BETWEEN_ATTEMPTS]
                     /\ DELAY_BETWEEN_ATTEMPTS = 5000

\* getrawmempool succeeded on its last attempt, after failures of both kinds
C8_Witness ==
    /\ method = "getrawmempool"
    /\ Len(log) = 5
    /\ Succeeded(5)
    /\ log[1].executed = "null"
    /\ log[2].executed = "false"
    /\ pc = "resolved"

(***************************************************************************)
(* C9: when the transport returns a payload that does not match the        *)
(* method's expected shape, the call fails with an error whose executed is *)
(* true, however many attempts preceded the response.                      *)
(***************************************************************************)
C9_ShapeMismatchIsExecuted ==
    \A k \in DOMAIN log :
        (Succeeded(k) /\ ~SchemaAccepts(schema, log[k].payload))
            => /\ pc = "rejected"
               /\ outcomes = 1
               /\ error.executed = "true"

\* getBalance received { balance: 1 } on its third attempt
C9_Witness ==
    /\ method = "getbalance"
    /\ Len(log) = 3
    /\ Succeeded(3)
    /\ log[3].payload = Value("object", "", {"balance"})
    /\ pc = "rejected"

C11_ErrorDataDescribesCall ==
    (pc = "rejected" /\ error.class = "BitcoinJsonRpcError") =>
        LET d == error.data.bitcoinJsonRpc
        IN  /\ {"method", "params", "methodIsPure", "maxAttempts", "attempts"}
                   \subseteq DOMAIN d
            /\ d.method = method
            /\ d.params = params
            /\ d.methodIsPure = (method \in PURE_METHODS)
            /\ d.maxAttempts = 5
            /\ d.attempts = Len(requests)
            /\ 1 <= d.attempts /\ d.attempts <= d.maxAttempts
            /\ Failed(Len(log))
            /\ error.executed = log[Len(log)].executed

\* A pure call rejected on its third attempt, verdict unknown.
C11_Witness ==
    /\ pc = "rejected"
    /\ error.class = "BitcoinJsonRpcError"
    /\ method = "gettransaction"
    /\ Len(requests) = 3
    /\ error.data.bitcoinJsonRpc.attempts = 3
    /\ error.executed = "null"

(***************************************************************************)
(* C12.  Building the BitcoinJsonRpcError composes and never overwrites:   *)
(* in the data of the error a call rejects with, what the inner layer      *)
(* attached (data.jsonRpcRequest and data.jsonRpcResponse of a failure the *)
(* node reported) is still there, the executed verdict the constructor     *)
(* places under data.bitcoinJsonRpc is still there, and so are method,     *)
(* params, methodIsPure, maxAttempts and attempts.                         *)
(***************************************************************************)
C12_DataComposes ==
    (pc = "rejected" /\ error.class = "BitcoinJsonRpcError") =>
        /\ error.message \in NodeMessages =>
               /\ {"jsonRpcRequest", "jsonRpcResponse"} \subseteq DOMAIN error.data
               /\ error.data.jsonRpcRequest = Request(method, params)
               /\ error.data.jsonRpcResponse = ErrorBody(error.message)
        /\ "bitcoinJsonRpc" \in DOMAIN error.data
        /\ {"method", "params", "methodIsPure", "maxAttempts", "attempts"}
               \subseteq DOMAIN error.data.bitcoinJsonRpc
        /\ "executed" \in DOMAIN error.data.bitcoinJsonRpc
        /\ error.data.bitcoinJsonRpc.executed = error.executed

(***************************************************************************)
(* The classifiers of utils.ts and the argument list of sendToAddress,     *)
(* applied on their own to arguments drawn from bounded sets.              *)
(***************************************************************************)
MaxMessageTokens == 2

\* 150 characters of a node's message, as long as the cap on messages.
LongText ==
    "Error: This transaction requires a transaction fee of at least 0.0001 because of its amount, complexity, or use of recently received funds. It is like"

FnTokens ==
    { "Insufficient funds", " for fee", "ECONNREFUSED", "connect ",
      "Work queue depth exceeded", "Error creating transaction",
      "Error choosing inputs", " for the send transaction",
      "fees may not be sufficient", "Invalid amount", "Upgrading",
      "Invalid or non-wallet transaction id", "No such mempool",
      " transaction", LongText }

FnMessages ==
    UNION { [1..n -> FnTokens] : n \in 0..MaxMessageTokens }

FnMethods ==
    { "sendtoaddress", "getbalance", "gettransaction", "getrawtransaction",
      "omni_send", "omni_gettransaction" }

\* cmdWithRetry's catch block classifies an error thrown with this message.
classify ==
    \E m \in FnMethods, message \in FnMessages :
        LET err == [message |-> message, data |-> EmptyObject]
        IN  /\ fnIn = NoInput
            /\ fnIn' = [fn |-> "classify", method |-> m, message |-> message]
            /\ fnOut' = [fn       |-> "classify",
                         message  |-> err.message,
                         executed |-> getWasExecutedFromError(m, err),
                         retry    |-> getShouldRetry(m, err)]
            /\ UNCHANGED <<callId, callVars, suspended>>

\* The node answers a request with the body { error: { message } }: cmd
\* (jsonRpcCmd) throws the error made from the body, and cmdWithRetry's
\* catch block classifies that error.
classifyResponse ==
    \E m \in FnMethods, message \in FnMessages :
        LET err == throwIfErrorInResponseDataWithExtraProps(
                       ErrorBody(message), RequestProps(m, << >>))[1]
        IN  /\ fnIn = NoInput
            /\ message # << >>
            /\ fnIn' = [fn |-> "classifyResponse", method |-> m, message |-> message]
            /\ fnOut' = [fn       |-> "classifyResponse",
                         message  |-> err.message,
                         executed |-> getWasExecutedFromError(m, err),
                         retry    |-> getShouldRetry(m, err)]
            /\ UNCHANGED <<callId, callVars, suspended>>

\* sendToAddress(address, amount, comment, commentTo, subtractFeeFromAmount,
\* replaceable) builds the params it sends.
buildSendToAddressParams ==
    \E address \in {"1Bitcoin"}, amount \in {"1.2"},
       comment \in {Undefined, "", "gift"}, commentTo \in {Undefined, "", "bob"},
       subtractFeeFromAmount \in {Undefined, "false", "true"},
       replaceable \in {Undefined, "false", "true"} :
        /\ fnIn = NoInput
        /\ fnIn' = [fn |-> "sendToAddress", address |-> address, amount |-> amount,
                    comment |-> comment, commentTo |-> commentTo,
                    subtractFeeFromAmount |-> subtractFeeFromAmount,
                    replaceable |-> replaceable]
        /\ fnOut' = [fn     |-> "sendToAddress",
                     params |-> sendToAddressParams(address, amount, comment, commentTo,
                                                    subtractFeeFromAmount, replaceable)]
        /\ UNCHANGED <<callId, callVars, suspended>>

\* The bodies of the responses: undefined, strings, and objects with or
\* without an error member and a result member.
JsonErrors ==
    { JsonError(Undefined, << >>, ""), JsonError("null", << >>, "") }
    \cup { JsonError("object", message, "-1") : message \in FnMessages }

BodyResults == { NoValue, Value("string", "hash", {}), Value("null", "", {}) }

ResponseBodies ==
    { UndefinedBody }
    \cup { StringBody(text) : text \in FnMessages \cup DOMAIN JsonTexts }
    \cup { Body("object", << >>, err, res) : err \in JsonErrors, res \in BodyResults }

AxiosOutcomes ==
    { AxiosResponse(data, json) : data \in ResponseBodies, json \in BOOLEAN }
    \cup { AxiosError(<< "Request failed with status code 500" >>, TRUE, data) :
               data \in ResponseBodies }
    \cup { AxiosError(<< "ECONNREFUSED" >>, FALSE, UndefinedBody) }

\* cmd(method, ...params): jsonRpcCmd(this.url, method, params), from the
\* outcome of its request on.
cmd ==
    \E o \in AxiosOutcomes : \E r \in jsonRpcCmd("getbalance", << "*" >>, o) :
        /\ fnIn = NoInput
        /\ fnIn' = [fn |-> "cmd", method |-> "getbalance", params |-> << "*" >>,
                    outcome |-> o]
        /\ fnOut' = [fn |-> "cmd", returned |-> r.returned, value |-> r.value,
                     error |-> r.error, body |-> r.body]
        /\ UNCHANGED <<callId, callVars, suspended>>

NextFn ==
    \/ classify
    \/ classifyResponse
    \/ buildSendToAddressParams
    \/ cmd

SpecFn == Init /\ [][NextFn]_vars

(***************************************************************************)
(* C13.  For every method and every message getWasExecutedFromError        *)
(* returns false (not executed) or null (unknown), never true, and it      *)
(* returns null for a message that matches none of the not-executed        *)
(* patterns.                                                               *)
(***************************************************************************)
C13_VerdictIsFalseOrNull ==
    fnOut.fn \in {"classify", "classifyResponse"} =>
        /\ fnOut.executed \in {"false", "null"}
        /\ fnOut.executed # "true"
        /\ ~OnNotExecutedList(fnOut.message) => fnOut.executed = "null"

\* "connect ECONNREFUSED" matches no pattern (/^ECONNREFUSED$/ is anchored).
C13_Witness ==
    /\ fnOut.fn = "classify"
    /\ fnIn.message = << "connect ", "ECONNREFUSED" >>
    /\ fnOut.executed = "null"

\* The message contains the phrase.
Contains(message, phrase) == \E i \in DOMAIN message : message[i] = phrase

(***************************************************************************)
(* C14.  getShouldRetry returns false exactly when (a) the message is      *)
(* exactly "Insufficient funds", or (b) the method is gettransaction and   *)
(* the message contains "Invalid or non-wallet transaction id", or (c) the *)
(* method starts with omni_ and the message contains "Error creating       *)
(* transaction" or "Error choosing inputs", or (d) the method is           *)
(* getrawtransaction and the message contains "No such mempool"; it        *)
(* returns true otherwise.  In particular "Insufficient funds for fee"     *)
(* stays retryable.                                                        *)
(***************************************************************************)
C14_ShouldRetryRules ==
    fnOut.fn = "classify" =>
        LET m == fnIn.method
            message == fnIn.message
            never ==
                \/ message = << "Insufficient funds" >>
                \/ /\ m = "gettransaction"
                   /\ Contains(message, "Invalid or non-wallet transaction id")
                \/ /\ m \in {"omni_send", "omni_gettransaction"}
                   /\ \/ Contains(message, "Error creating transaction")
                      \/ Contains(message, "Error choosing inputs")
                \/ /\ m = "getrawtransaction"
                   /\ Contains(message, "No such mempool")
        IN  /\ fnOut.retry = ~never
            /\ message = << "Insufficient funds", " for fee" >> => fnOut.retry

\* getrawtransaction fails with "No such mempool transaction": no retry.
C14_Witness ==
    /\ fnOut.fn = "classify"
    /\ fnIn.method = "getrawtransaction"
    /\ fnIn.message = << "No such mempool", " transaction" >>
    /\ ~fnOut.retry

(***************************************************************************)
(* C15.  The effect classifier is evaluated against the raw message of the *)
(* failure, before the message is cut to the message-length cap: when the  *)
(* node reports an error whose message holds a not-executed phrase, also   *)
(* one that appears only after the cap position, cmdWithRetry's verdict is *)
(* not executed (false), the verdict of the raw message.                   *)
(***************************************************************************)
C15_ClassifiedOnRawMessage ==
    fnOut.fn = "classifyResponse" =>
        /\ OnNotExecutedList(fnIn.message) => fnOut.executed = "false"
        /\ fnOut.executed =
               getWasExecutedFromError(fnIn.method, [message |-> fnIn.message])

(***************************************************************************)
(* C16.  Every attempt of one logical call sends the same method and the   *)
(* same positional params, those of the call: each request the transport   *)
(* received has the call's method and the call's params, element for       *)
(* element, so a retry changes, reorders, adds or drops nothing.           *)
(***************************************************************************)
C16_SameRequestEveryAttempt ==
    \A i \in DOMAIN requests :
        /\ requests[i].method = method
        /\ requests[i].params = params
        /\ Len(requests[i].params) = Len(params)
        /\ requests[i] = requests[1]

\* sendToAddress with six params, on its third attempt.
C16_Witness ==
    /\ method = "sendtoaddress"
    /\ Len(params) = 6
    /\ Len(requests) = 3
    /\ requests[3].params = <<"1Bitcoin", "1.2", "", "", "false", "true">>

\* The transport requests of the call that have not completed.
InFlight == Len(requests) - Len(log)

C17_AttemptsInSequence ==
    /\ InFlight \in {0, 1}
    /\ InFlight = 1 <=> pc = "await"
    /\ \A n \in 1..(Len(requests) - 1) : Failed(n) /\ Len(waits) >= n

C17_RequestOnlyAfterDelay ==
    (callId' = callId /\ requests' # requests) =>
        /\ pc = "delay"
        /\ InFlight = 0
        /\ Failed(Len(log))
        /\ Len(requests') = Len(requests) + 1

(***************************************************************************)
(* C17.  A logical call has at most one transport request in flight, and   *)
(* attempt n + 1 is issued only after attempt n has completed with a       *)
(* failure and the delay after it has elapsed: a running call sends a      *)
(* request only from its delay, one at a time, with nothing in flight.     *)
(***************************************************************************)
C17_OneRequestInFlight ==
    []C17_AttemptsInSequence /\ [][C17_RequestOnlyAfterDelay]_vars

\* The fourth request is in flight; three attempts failed, three delays passed.
C17_Witness ==
    /\ pc = "await"
    /\ Len(requests) = 4
    /\ Len(log) = 3
    /\ Len(waits) = 3
    /\ InFlight = 1

(***************************************************************************)
(* C19.  Between attempt n and attempt n + 1 the call waits exactly once,  *)
(* for the fixed delay of 5000 ms, the same for every n; it does not wait  *)
(* before its first attempt nor after its final attempt: while the request *)
(* of attempt k is in flight it has waited k - 1 times, and once it has    *)
(* terminated with k attempts it has waited exactly k - 1 times.           *)
(***************************************************************************)
C19_OneFixedWaitBetweenAttempts ==
    /\ \A i \in DOMAIN waits : waits[i] = 5000
    /\ pc = "idle" => waits = << >>
    /\ pc = "await" => Len(waits) = Len(requests) - 1 /\ Len(log) = Len(waits)
    /\ pc = "delay" => Len(waits) = Len(requests) /\ Len(log) = Len(waits)
    /\ pc \in {"resolved", "rejected"} =>
           /\ Len(requests) = Len(log)
           /\ Len(waits) = Len(log) - 1

\* A call that rejected on its fifth attempt has waited four times.
C19_Witness ==
    /\ pc = "rejected"
    /\ Len(log) = 5
    /\ waits = <<5000, 5000, 5000, 5000>>

(***************************************************************************)
(* C20.  sendToAddress fills the optional arguments left out before the    *)
(* last one given with their defaults and sends the arguments by position: *)
(* with address, amount and replaceable only it sends [address, amount,    *)
(* '', '', false, replaceable]; with subtractFeeFromAmount the last one    *)
(* given it sends [address, amount, comment or '', commentTo or '',        *)
(* subtractFeeFromAmount]; with address and amount only it sends           *)
(* [address, amount].                                                      *)
(***************************************************************************)
C20_SendToAddressDefaults ==
    fnOut.fn = "sendToAddress" =>
        LET a == fnIn
            commentOrEmpty == IF a.comment = Undefined THEN "" ELSE a.comment
            commentToOrEmpty == IF a.commentTo = Undefined THEN "" ELSE a.commentTo
        IN  /\ ( /\ a.replaceable # Undefined
                 /\ a.comment = Undefined
                 /\ a.commentTo = Undefined
                 /\ a.subtractFeeFromAmount = Undefined )
               => fnOut.params = <<a.address, a.amount, "", "", "false", a.replaceable>>
            /\ ( /\ a.replaceable = Undefined
                 /\ a.subtractFeeFromAmount # Undefined )
               => fnOut.params = <<a.address, a.amount, commentOrEmpty, commentToOrEmpty,
                                   a.subtractFeeFromAmount>>
            /\ ( /\ a.replaceable = Undefined
                 /\ a.subtractFeeFromAmount = Undefined
                 /\ a.commentTo = Undefined
                 /\ a.comment = Undefined )
               => fnOut.params = <<a.address, a.amount>>

\* sendToAddress('1Bitcoin', '1.2', undefined, undefined, undefined, true)
C20_Witness ==
    /\ fnOut.fn = "sendToAddress"
    /\ fnIn.comment = Undefined
    /\ fnIn.commentTo = Undefined
    /\ fnIn.subtractFeeFromAmount = Undefined
    /\ fnIn.replaceable = "true"
    /\ fnOut.params = <<"1Bitcoin", "1.2", "", "", "false", "true">>

(***************************************************************************)
(* Two logical calls on one client.  Each call has its own locals          *)
(* (callVars): the arguments and closure variables of cmdWithRetryAndParse *)
(* and cmdWithRetry.  While one call steps, the other one's locals are in  *)
(* `suspended`; at an await the event loop may continue either call.  The  *)
(* client's own data (url, PURE_METHODS, MAX_ATTEMPTS,                     *)
(* DELAY_BETWEEN_ATTEMPTS) is constant.                                    *)
(***************************************************************************)
CallState ==
    [pc |-> pc, method |-> method, params |-> params, schema |-> schema,
     attemptN |-> attemptN, requests |-> requests, log |-> log, waits |-> waits,
     unsafe |-> unsafe, result |-> result, error |-> error,
     outcomes |-> outcomes, executions |-> executions]

\* Faulty variant: attemptN is a field of the client, shared by its calls.
Resume_SharedAttemptN(saved, running) ==
    [saved EXCEPT !.attemptN = IF saved.pc = "idle" THEN 0 ELSE running.attemptN]

\* The locals a call continues with: its own, as it left them.
Resume(saved, running) == saved

\* The event loop continues the other call.
switch ==
    LET c == Resume(suspended, CallState)
    IN  /\ suspended' = CallState
        /\ pc' = c.pc
        /\ method' = c.method
        /\ params' = c.params
        /\ schema' = c.schema
        /\ attemptN' = c.attemptN
        /\ requests' = c.requests
        /\ log' = c.log
        /\ waits' = c.waits
        /\ unsafe' = c.unsafe
        /\ result' = c.result
        /\ error' = c.error
        /\ outcomes' = c.outcomes
        /\ executions' = c.executions
        /\ UNCHANGED <<callId, fnIn, fnOut>>

\* What the transport answers in the runs of two calls.
ConcurrentMessages == { <<"ECONNREFUSED">>, <<"Invalid or non-wallet transaction id">> }

ConcurrentPayloads ==
    { Value("string", "hash", {}),
      Value("object", "", {"txid", "type", "type_int", "version", "fee", "hex"}) }

concurrentSendToAddress == sendToAddress /\ params' = <<"1Bitcoin", "1.2">>

concurrentCmdResolves == cmdResolves /\ unsafe' \in ConcurrentPayloads

concurrentCmdRejects == cmdRejects /\ log'[Len(log')].message \in ConcurrentMessages

NextConcurrent ==
    \/ concurrentSendToAddress
    \/ getTransaction
    \/ concurrentCmdResolves
    \/ concurrentCmdRejects
    \/ delayElapses
    \/ switch

SpecConcurrent == Init /\ [][NextConcurrent]_vars

\* The error cmd rejected the last attempt of call c with.
LastInner(c) ==
    CHOOSE e \in CmdErrors(c.method, c.params) : e.message = c.log[Len(c.log)].message

\* Whether a call running alone has terminated once its transport has
\* answered its attempts as in c.log.
AloneTerminated(c) ==
    /\ c.log # << >>
    /\ LET k == Len(c.log)
           pure == c.method \in PURE_METHODS
           verdict == getWasExecutedFromError(c.method, LastInner(c))
       IN  \/ c.log[k].ok
           \/ k = MAX_ATTEMPTS
           \/ ~shouldRetry(hadEffects(pure, verdict), c.method, LastInner(c))

\* The outcome of a call running alone whose transport answered its
\* attempts as in c.log, the last answer ending the call.
AloneOutcome(c) ==
    LET k == Len(c.log)
        last == c.log[k]
        pure == c.method \in PURE_METHODS
    IN  IF last.ok
        THEN IF SchemaAccepts(c.schema, last.payload)
             THEN [pc |-> "resolved", attempts |-> k, verdict |-> Undefined,
                   result |-> SchemaParse(c.schema, last.payload), error |-> NoError]
             ELSE [pc |-> "rejected", attempts |-> k, verdict |-> "true",
                   result |-> NoValue,
                   error |-> ParseFailure(ZodError(c.schema, last.payload))]
        ELSE LET verdict == getWasExecutedFromError(c.method, LastInner(c))
             IN  [pc |-> "rejected", attempts |-> k, verdict |-> verdict,
                  result |-> NoValue,
                  error |-> BitcoinJsonRpcError(LastInner(c), verdict,
                                getErrrorData(c.method, c.params, pure, k))]

\* Call c is where a call running alone is after the same transport answers.
AsAlone(c) ==
    c.pc # "idle" =>
        /\ \A i \in DOMAIN c.requests : c.requests[i] = Request(c.method, c.params)
        /\ \A i \in DOMAIN c.waits : c.waits[i] = DELAY_BETWEEN_ATTEMPTS
        /\ c.pc \in {"resolved", "rejected"} <=> AloneTerminated(c)
        /\ c.pc \in {"resolved", "rejected"} =>
               /\ c.attemptN = AloneOutcome(c).attempts
               /\ Len(c.requests) = AloneOutcome(c).attempts
               /\ c.error.executed = AloneOutcome(c).verdict
               /\ c.pc = AloneOutcome(c).pc
               /\ c.result = AloneOutcome(c).result
               /\ c.error = AloneOutcome(c).error
               /\ c.outcomes = 1
        /\ c.pc = "await" =>
               c.attemptN = Len(c.log) + 1 /\ Len(c.requests) = Len(c.log) + 1
        /\ c.pc = "delay" =>
               c.attemptN = Len(c.log) /\ Len(c.requests) = Len(c.log)
        /\ c.pc \in {"await", "delay"} => c.outcomes = 0 /\ c.error = NoError

(***************************************************************************)
(* C18.  Two logical calls running concurrently on one client do not       *)
(* affect each other: under every interleaving of their steps each call's  *)
(* attempt count, verdict and terminal outcome are what the call produces  *)
(* running alone with the same transport answers.                          *)
(***************************************************************************)
C18_ConcurrentCallsIndependent ==
    /\ AsAlone(CallState)
    /\ AsAlone(suspended)

\* Both calls are in progress at once, on different attempts: sendToAddress
\* awaits its second request while getTransaction waits before its fourth.
C18_Witness ==
    /\ pc = "await"
    /\ method = "sendtoaddress"
    /\ attemptN = 2
    /\ suspended.pc = "delay"
    /\ suspended.method = "gettransaction"
    /\ suspended.attemptN = 3

(***************************************************************************)
(* C21.  When the transport delivers a response whose body is undefined,   *)
(* jsonRpcCmd fails with an error whose message is "data is undefined".    *)
(***************************************************************************)
C21_UndefinedBodyMessage ==
    ( /\ fnOut.fn = "cmd"
      /\ fnIn.outcome.hasResponse
      /\ fnIn.outcome.data.type = Undefined ) =>
        /\ ~fnOut.returned
        /\ fnOut.error.message = << "data is undefined" >>

\* The body jsonRpcCmd examines for outcome o, as << body >>: the data of
\* the response, parsed if it is a JSON text sent as application/json;
\* << >> if that text does not parse, or if a failed request has no body.
ExaminedBody(o) ==
    IF o.kind = "response"
    THEN IF o.contentTypeIsJson /\ o.data.type = "string"
         THEN JSONParse(o.data.text)
         ELSE << o.data >>
    ELSE IF o.hasResponse /\ Truthy(o.data) THEN << o.data >> ELSE << >>

\* The number of characters of a text.
RECURSIVE TextLength(_)
TextLength(text) ==
    IF text = << >> THEN 0 ELSE Len(Head(text)) + TextLength(Tail(text))

\* message is text cut to its first 150 characters.
CutTo150(message, text) ==
    IF TextLength(text) <= 150
    THEN message = text
    ELSE \E k \in 0..(Len(text) - 1) :
             /\ TextLength(SubSeq(text, 1, k)) <= 150
             /\ TextLength(SubSeq(text, 1, k + 1)) > 150
             /\ message = SubSeq(text, 1, k)
                          \o (IF TextLength(SubSeq(text, 1, k)) < 150
                              THEN << CutToken >> ELSE << >>)

C23_ResultOrResultMissing ==
    ( /\ fnOut.fn = "cmd"
      /\ fnIn.outcome.kind = "response"
      /\ ExaminedBody(fnIn.outcome) # << >> ) =>
        LET body == ExaminedBody(fnIn.outcome)[1]
            text == IF body.error.type = "null"
                    THEN << "{", "\"error\":null", "}" >>
                    ELSE << "{", "}" >>
        IN  (body.type = "object" /\ body.error.type \in {Undefined, "null"}) =>
                IF body.result.type # Undefined
                THEN /\ fnOut.returned
                     /\ fnOut.value = body.result
                ELSE /\ ~fnOut.returned
                     /\ fnOut.error.message = << "Result missing from " >> \o text

\* The body { error: null } has no result.
C23_Witness ==
    /\ fnOut.fn = "cmd"
    /\ fnIn.outcome.kind = "response"
    /\ fnIn.outcome.data.type = "object"
    /\ fnIn.outcome.data.error.type = "null"
    /\ fnIn.outcome.data.result.type = Undefined
    /\ ~fnOut.returned
    /\ fnOut.error.message = << "Result missing from ", "{", "\"error\":null", "}" >>

(***************************************************************************)
(* C24.  Every error jsonRpcCmd raises because of a response body, that    *)
(* is for a string body, for a body with an error member, and for a body   *)
(* with no result member, carries that body as data.jsonRpcResponse.       *)
(***************************************************************************)
C24_ErrorCarriesBody ==
    (fnOut.fn = "cmd" /\ ExaminedBody(fnIn.outcome) # << >>) =>
        LET body == ExaminedBody(fnIn.outcome)[1]
            becauseOfBody ==
                \/ body.type = "string"
                \/ body.type = "object" /\ body.error.type = "object"
                \/ /\ fnIn.outcome.kind = "response"
                   /\ body.type = "object"
                   /\ body.error.type \in {Undefined, "null"}
                   /\ body.result.type = Undefined
        IN  becauseOfBody =>
                /\ ~fnOut.returned
                /\ "jsonRpcResponse" \in DOMAIN fnOut.error.data
                /\ fnOut.error.data.jsonRpcResponse = body

\* The failure of attempt n is not retryable: the command may have had
\* effects (the method is not pure and the verdict is not "not executed"),
\* or a rule of getShouldRetry forbids the retry.
NotRetryable(n) ==
    \/ method \notin PURE_METHODS /\ log[n].executed # "false"
    \/ ~getShouldRetry(method, [message |-> log[n].message])

(***************************************************************************)
(* C25.  A failure on attempt n < maxAttempts ends the call at attempt n,  *)
(* with no wait and no further attempt, if and only if the failure is not  *)
(* retryable; a retryable one is retried.  Hence an error with attempts <  *)
(* maxAttempts is raised only for a failure that is not retryable.         *)
(***************************************************************************)
C25_EndsEarlyIffNotRetryable ==
    /\ \A n \in DOMAIN log :
           (Failed(n) /\ n < MAX_ATTEMPTS) =>
               /\ NotRetryable(n) <=>
                      /\ pc = "rejected"
                      /\ Len(log) = n
                      /\ Len(requests) = n
                      /\ Len(waits) = n - 1
               /\ NotRetryable(n) <=> ~Retried(n)
    /\ ( /\ pc = "rejected"
         /\ error.class = "BitcoinJsonRpcError"
         /\ error.data.bitcoinJsonRpc.attempts < error.data.bitcoinJsonRpc.maxAttempts )
       => NotRetryable(Len(log))

\* getTransaction is retried after ECONNREFUSED and ends on its second
\* attempt, on a rule of getShouldRetry.
C25_Witness ==
    /\ pc = "rejected"
    /\ method = "gettransaction"
    /\ Len(log) = 2
    /\ log[1].message = << "ECONNREFUSED" >>
    /\ log[2].message = << "Invalid or non-wallet transaction id" >>
    /\ error.data.bitcoinJsonRpc.attempts = 2
    /\ Len(waits) = 1

(***************************************************************************)
(* C26.  When every attempt of a call fails with a retryable failure, the  *)
(* transport is invoked exactly maxAttempts = 5 times and the call ends    *)
(* with a BitcoinJsonRpcError whose data.bitcoinJsonRpc.attempts is 5:     *)
(* a call that has terminated after retryable failures only has made five  *)
(* requests, and one that has not terminated has made fewer than five or   *)
(* awaits its fifth.                                                       *)
(***************************************************************************)
C26_ExhaustsAfterFive ==
    (log # << >> /\ \A n \in DOMAIN log : Failed(n) /\ ~NotRetryable(n)) =>
        /\ pc \in {"rejected", "delay", "await"}
        /\ pc = "rejected" =>
               /\ Len(requests) = 5
               /\ Len(log) = 5
               /\ error.class = "BitcoinJsonRpcError"
               /\ error.data.bitcoinJsonRpc.attempts = 5
               /\ outcomes = 1
        /\ pc \in {"delay", "await"} => Len(log) < 5
        /\ Len(log) = 5 => pc = "rejected"

\* sendToAddress fails five times with ECONNREFUSED.
C26_Witness ==
    /\ pc = "rejected"
    /\ method = "sendtoaddress"
    /\ Len(requests) = 5
    /\ \A n \in 1..5 : n \in DOMAIN log /\ log[n].message = << "ECONNREFUSED" >>
    /\ error.data.bitcoinJsonRpc.attempts = 5

(***************************************************************************)
(* The calls of a client, one after the other, when the outside world      *)
(* answers: every transport request eventually completes (resolves or      *)
(* rejects) and every delay eventually elapses.  The transport answers     *)
(* with ConcurrentMessages and ConcurrentPayloads.                         *)
(***************************************************************************)
NextLive ==
    \/ concurrentSendToAddress
    \/ omniSend
    \/ getTransaction
    \/ getRawMempool
    \/ getBalance
    \/ concurrentCmdResolves
    \/ concurrentCmdRejects
    \/ delayElapses

SpecLive ==
    /\ Init
    /\ [][NextLive]_vars
    /\ WF_vars(concurrentCmdResolves \/ concurrentCmdRejects)
    /\ WF_vars(delayElapses)

(***************************************************************************)
(* C27.  Every logical call eventually reaches a terminal outcome, a       *)
(* value or an error, provided each transport attempt eventually completes *)
(* and each delay eventually elapses: a call that is attempting or waiting *)
(* does not stay so forever.                                               *)
(***************************************************************************)
C27_CallTerminates ==
    \A id \in 1..MaxCalls :
        (callId = id /\ pc \in {"await", "delay"})
            ~> (callId = id /\ pc \in {"resolved", "rejected"} /\ outcomes = 1)

\* A call that terminated only on its fifth attempt.
C27_Witness ==
    /\ pc \in {"resolved", "rejected"}
    /\ outcomes = 1
    /\ Len(log) = 5
    /\ Len(waits) = 4

(***************************************************************************)
(* C28.  For a method that is not in PURE_METHODS, if the call ends with   *)
(* an error whose executed is false, then every attempt of the call, not   *)
(* only the last, failed with a message classified as not executed.  For   *)
(* a pure method the error's executed is the verdict of the message of     *)
(* the last attempt alone.                                                 *)
(***************************************************************************)
C28_NotExecutedMeansNoAttemptRan ==
    (pc = "rejected" /\ error.class = "BitcoinJsonRpcError") =>
        /\ (method \notin PURE_METHODS /\ error.executed = "false") =>
               \A n \in DOMAIN log :
                   /\ Failed(n)
                   /\ log[n].executed = "false"
                   /\ OnNotExecutedList(log[n].message)
        /\ method \in PURE_METHODS =>
               error.executed = IF OnNotExecutedList(log[Len(log)].message)
                                THEN "false" ELSE "null"

\* sendToAddress: two refused connections, then "Insufficient funds".
C28_Witness ==
    /\ pc = "rejected"
    /\ method = "sendtoaddress"
    /\ error.executed = "false"
    /\ Len(log) = 3
    /\ log[1].message = << "ECONNREFUSED" >>
    /\ log[3].message = << "Insufficient funds" >>

C29_PayloadEndsTheCall ==
    \A n \in DOMAIN log :
        Succeeded(n) =>
            /\ n = Len(log)
            /\ Len(requests) = n
            /\ pc \in {"resolved", "rejected"}
            /\ unsafe = log[n].payload
            /\ pc = "rejected" <=> ~SchemaAccepts(schema, log[n].payload)

C29_NoRequestAfterPayload ==
    (callId' = callId /\ \E n \in DOMAIN log : Succeeded(n)) =>
        /\ requests' = requests
        /\ waits' = waits
        /\ log' = log

(***************************************************************************)
(* C29.  A shape-validation failure never causes another transport call:   *)
(* once an attempt has returned a payload, the call is over and invokes    *)
(* the transport no more, whether the payload validates or not, for pure   *)
(* and non-pure methods alike.                                             *)
(***************************************************************************)
C29_ShapeFailureNeverRetried ==
    []C29_PayloadEndsTheCall /\ [][C29_NoRequestAfterPayload]_vars

\* getBalance, a pure method: its second attempt returns a payload that is
\* no number; the call rejects and has made two requests.
C29_Witness ==
    /\ pc = "rejected"
    /\ error.class = "ZodError"
    /\ method = "getbalance"
    /\ Len(log) = 2
    /\ Succeeded(2)
    /\ Len(requests) = 2

(***************************************************************************)
(* C30.  sendToAddress called with address, amount and a comment, with     *)
(* commentTo, subtractFeeFromAmount and replaceable left out, sends the    *)
(* comment as the third positional parameter: [address, amount, comment].  *)
(***************************************************************************)
C30_LoneCommentIsSent ==
    ( /\ fnOut.fn = "sendToAddress"
      /\ fnIn.comment # Undefined
      /\ fnIn.commentTo = Undefined
      /\ fnIn.subtractFeeFromAmount = Undefined
      /\ fnIn.replaceable = Undefined ) =>
        fnOut.params = << fnIn.address, fnIn.amount, fnIn.comment >>

=============================================================================
